---------------------------- MODULE Spec2Model ----------------------------
(***************************************************************************)
(* A model of the frappe recommendation subsystem:                         *)
(*   - frappe/models/module.py      Module.predict_scores and aggregate    *)
(*   - recommendation/language/models.py   Locale and its locale caches    *)
(*   - recommendation/management/commands/fill.py   the bulk loader        *)
(*                                                                         *)
(* A nullable value (a NULL column, None, an absent JSON field) is the     *)
(* empty sequence << >>; a present value v is << v >>.                     *)
(***************************************************************************)
EXTENDS Integers, Sequences, FiniteSets, TLC

VARIABLES
    \* ---- Module.predict_scores (frappe/models/module.py)
    aggregators,      \* PredictorWithAggregator rows of the module: predictor_id -> weight (nullable)
    call,             \* arguments (user, size) of the running predict_scores call
    todo,             \* predictors of get_predictors not yet invoked
    recommendations,  \* dict predictor_id -> prediction, built by the comprehension
    recommendation,   \* the local variable recommendation (nullable)
    calls,            \* the stage calls made so far, in order
    mpc,              \* position in predict_scores
    mexc,             \* exception that ended predict_scores (nullable)
    \* ---- Locale and its caches (recommendation/language/models.py)
    locale_items,     \* Locale.items: locale pk -> set of item pks (many-to-many rows)
    locale_users,     \* Locale.users: locale pk -> set of user pks
    item_locales,     \* Locale.item_locales cache: item pk -> set of locale pks
    items_by_locale,  \* Locale.items_by_locale cache: locale pk -> set of item pks
    user_locales,     \* Locale.user_locales cache: user pk -> set of locale pks
    users_by_locale,  \* Locale.users_by_locale cache: locale pk -> set of user pks
    cexc,             \* exception raised by the last m2m_changed receiver (nullable)
    \* ---- the relational store, as the loader sees it
    db_items,         \* Item rows: [pk, external_id]
    db_genres,        \* Genre rows: [pk, name]
    db_locales,       \* Locale rows: [pk, language_code, country_code]
    db_item_genres,   \* ItemGenre rows: [pk, item_id, type_id]
    db_item_locales,  \* ItemLocale rows: [pk, locale_id, item_id]
    db_users,         \* User rows: [pk, external_id]
    db_inventory,     \* Inventory rows: [pk, item_id, user_id, acquisition_date, dropped_date]
    statements,       \* the bulk_create calls issued so far: [table, size, pks]
    \* ---- FillTool (recommendation/management/commands/fill.py)
    vendor,           \* connection.vendor
    apps,             \* the optional apps that are installed (and TESTING_MODE is off)
    objects,          \* self.objects
    items,            \* local items: external_id -> Item row
    users,            \* local users: external_id -> User row
    categories,       \* local categories: set of genre names
    locales,          \* local locales: set of locale names
    db_categories,    \* local db_categories: genre name -> Genre row
    db_locales_map,   \* local db_locales: locale name -> Locale row
    fpc,              \* position in the loader
    fexc,             \* exception that ended the loader: [at, type] (nullable)
    first_run,        \* the store as the first run of the loader left it (nullable)
    \* ---- FillTool.__init__ and FillTool.load
    parameters,       \* the docopt arguments
    path,             \* self.path (nullable)
    tmp_dir,          \* self.tmp_dir (nullable)
    use_tmp,          \* self.use_tmp
    files,            \* the directories on disk: directory -> its files, in os.walk order
    lpc,              \* position in __init__ and load
    lexc              \* exception that load lets through (nullable)

moduleVars == <<aggregators, call, todo, recommendations, recommendation, calls, mpc, mexc>>

cacheVars == <<locale_items, locale_users, item_locales, items_by_locale,
               user_locales, users_by_locale, cexc>>

storeVars == <<db_items, db_genres, db_locales, db_item_genres, db_item_locales,
               db_users, db_inventory, statements>>

fillVars == <<vendor, apps, objects, items, users, categories, locales, db_categories,
              db_locales_map, fpc, fexc>>

toolVars == <<parameters, path, tmp_dir, use_tmp, files, lpc, lexc>>

vars == <<moduleVars, cacheVars, storeVars, fillVars, first_run, toolVars>>

notModuleVars == <<cacheVars, storeVars, fillVars, first_run, toolVars>>
notCacheVars == <<moduleVars, storeVars, fillVars, first_run, toolVars>>
notFillVars == <<moduleVars, cacheVars, first_run, toolVars>>

None == << >>
Some(v) == << v >>

(***************************************************************************)
(* Bounds of the model.                                                    *)
(***************************************************************************)
MaxPredictors == 2
MaxWeight == 2
MaxScore == 1
MaxSize == 2
MaxUser == 2

PredictorIds == 1..MaxPredictors
Weights == 0..MaxWeight
Scores == 0..MaxScore
\* weight = models.FloatField(null=True, blank=True)
NullableWeights == {None} \cup {Some(w) : w \in Weights}

\* The elements of a finite set of integers in ascending order.
RECURSIVE SortedSeq(_)
SortedSeq(S) ==
    IF S = {} THEN << >>
    ELSE LET m == CHOOSE x \in S : \A y \in S : x <= y
         IN <<m>> \o SortedSeq(S \ {m})

RECURSIVE SumOver(_, _)
SumOver(S, f) ==
    IF S = {} THEN 0
    ELSE LET x == CHOOSE y \in S : TRUE
         IN f[x] + SumOver(S \ {x}, f)

(***************************************************************************)
(* Locale caches (recommendation/language/models.py)                       *)
(***************************************************************************)
MaxLocalePk == 2
MaxItemPk == 2
MaxUserPk == 2

LocalePks == 1..MaxLocalePk
ItemPks == 1..MaxItemPk
UserPks == 1..MaxUserPk

\* CacheManager.get(key, default) and CacheManager[key] = value, as the
\* receivers use them.
CacheGet(cache, key, default) == IF key \in DOMAIN cache THEN cache[key] ELSE default
CacheSet(cache, key, value) ==
    [k \in DOMAIN cache \cup {key} |-> IF k = key THEN value ELSE cache[k]]

\* The "post_save" branch of add_item_locale_to_cache, for i in pk_set:
\*   item_locales[i] = item_locales.get(i, set([]).union((instance.pk,)))
\*   items_by_locale[instance.pk] = items_by_locale.get(instance.pk, set([])).union((i,))
\* The first line's default is the set {instance.pk}: a cached set is kept as it is.
RECURSIVE item_post_save(_, _, _)
item_post_save(c, pk, pk_set) ==
    IF pk_set = {} THEN c
    ELSE LET i == CHOOSE x \in pk_set : TRUE
             c1 == [item_locales |-> CacheSet(c.item_locales, i, CacheGet(c.item_locales, i, {pk})),
                    items_by_locale |-> CacheSet(c.items_by_locale, pk,
                                                 CacheGet(c.items_by_locale, pk, {}) \cup {i}),
                    exc |-> c.exc]
         IN item_post_save(c1, pk, pk_set \ {i})

\* The "post_remove" branch, for the first i of pk_set:
\*   l = item_locales.get(i, set([])); l.discard(instance.pk); item_locales[i] = l
\*   l = Locale.items_by_locales.get(...)   -- Locale has items_by_locale, no
\*   items_by_locales: AttributeError, which ends the receiver.
item_post_remove(c, pk, first) ==
    [item_locales |-> CacheSet(c.item_locales, first, CacheGet(c.item_locales, first, {}) \ {pk}),
     items_by_locale |-> c.items_by_locale,
     exc |-> Some("AttributeError")]

\* add_item_locale_to_cache(sender, instance, action, reverse, model, pk_set, ...);
\* django sends m2m_changed with the actions pre_add, post_add, pre_remove,
\* post_remove, pre_clear and post_clear;
\* first is the element of pk_set the loop visits first.
add_item_locale_to_cache(c, pk, action, pk_set, first) ==
    LET c1 == IF action = "post_save" THEN item_post_save(c, pk, pk_set) ELSE c
    IN IF action = "post_remove" /\ pk_set # {} THEN item_post_remove(c1, pk, first) ELSE c1

\* The "post_save" branch of add_user_locale_to_cache, for the first u of pk_set:
\*   user_locales[u] = user_locales.get(u, set([]).union((instance.pk,)))
\*   Locale.users_by_locales[...]   -- AttributeError (the attribute is users_by_locale)
user_post_save(c, pk, first) ==
    [user_locales |-> CacheSet(c.user_locales, first, CacheGet(c.user_locales, first, {pk})),
     users_by_locale |-> c.users_by_locale,
     exc |-> Some("AttributeError")]

\* The "post_remove" branch, for the first u of pk_set; it ends at users_by_locales.
user_post_remove(c, pk, first) ==
    [user_locales |-> CacheSet(c.user_locales, first, CacheGet(c.user_locales, first, {}) \ {pk}),
     users_by_locale |-> c.users_by_locale,
     exc |-> Some("AttributeError")]

\* add_user_locale_to_cache(sender, instance, action, reverse, model, pk_set, ...)
add_user_locale_to_cache(c, pk, action, pk_set, first) ==
    LET c1 == IF action = "post_save" /\ pk_set # {} THEN user_post_save(c, pk, first) ELSE c
    IN IF c1.exc = None /\ action = "post_remove" /\ pk_set # {}
       THEN user_post_remove(c1, pk, first) ELSE c1

ItemCache == [item_locales |-> item_locales, items_by_locale |-> items_by_locale, exc |-> None]
UserCache == [user_locales |-> user_locales, users_by_locale |-> users_by_locale, exc |-> None]

\* locale.items.add(*pk_set): django sends pre_add, inserts the rows, sends post_add.
LocaleItemsAdd(pk, pk_set) ==
    /\ \E first \in pk_set :
        LET c1 == add_item_locale_to_cache(ItemCache, pk, "pre_add", pk_set, first)
            c2 == add_item_locale_to_cache(c1, pk, "post_add", pk_set, first)
        IN /\ locale_items' = [locale_items EXCEPT ![pk] = @ \cup pk_set]
           /\ item_locales' = c2.item_locales
           /\ items_by_locale' = c2.items_by_locale
           /\ cexc' = c2.exc
    /\ UNCHANGED <<locale_users, user_locales, users_by_locale, notCacheVars>>

\* locale.items.remove(*pk_set): pre_remove, the rows are deleted, post_remove.
\* The receiver raises in post_remove; whether the deletion stays depends on
\* whether the django in use wraps the removal in a transaction (rolled_back).
LocaleItemsRemove(pk, pk_set, rolled_back) ==
    /\ \E first \in pk_set :
        LET c1 == add_item_locale_to_cache(ItemCache, pk, "pre_remove", pk_set, first)
            c2 == add_item_locale_to_cache(c1, pk, "post_remove", pk_set, first)
        IN /\ locale_items' = IF rolled_back /\ c2.exc # None THEN locale_items
                              ELSE [locale_items EXCEPT ![pk] = @ \ pk_set]
           /\ item_locales' = c2.item_locales
           /\ items_by_locale' = c2.items_by_locale
           /\ cexc' = c2.exc
    /\ UNCHANGED <<locale_users, user_locales, users_by_locale, notCacheVars>>

\* locale.users.add(*pk_set)
LocaleUsersAdd(pk, pk_set) ==
    /\ \E first \in pk_set :
        LET c1 == add_user_locale_to_cache(UserCache, pk, "pre_add", pk_set, first)
            c2 == add_user_locale_to_cache(c1, pk, "post_add", pk_set, first)
        IN /\ locale_users' = [locale_users EXCEPT ![pk] = @ \cup pk_set]
           /\ user_locales' = c2.user_locales
           /\ users_by_locale' = c2.users_by_locale
           /\ cexc' = c2.exc
    /\ UNCHANGED <<locale_items, item_locales, items_by_locale, notCacheVars>>

\* locale.users.remove(*pk_set)
LocaleUsersRemove(pk, pk_set, rolled_back) ==
    /\ \E first \in pk_set :
        LET c1 == add_user_locale_to_cache(UserCache, pk, "pre_remove", pk_set, first)
            c2 == add_user_locale_to_cache(c1, pk, "post_remove", pk_set, first)
        IN /\ locale_users' = IF rolled_back /\ c2.exc # None THEN locale_users
                              ELSE [locale_users EXCEPT ![pk] = @ \ pk_set]
           /\ user_locales' = c2.user_locales
           /\ users_by_locale' = c2.users_by_locale
           /\ cexc' = c2.exc
    /\ UNCHANGED <<locale_items, item_locales, items_by_locale, notCacheVars>>

\* No locale has items or users and the caches are empty.
IdleCache ==
    /\ locale_items = [l \in LocalePks |-> {}]
    /\ locale_users = [l \in LocalePks |-> {}]
    /\ item_locales = << >>
    /\ items_by_locale = << >>
    /\ user_locales = << >>
    /\ users_by_locale = << >>
    /\ cexc = None

(***************************************************************************)
(* Module (frappe/models/module.py)                                        *)
(***************************************************************************)

\* Module.get_predictors: the predictor ids configured for the module (the
\* lookup modules_id=module_id is taken as the predictors of the module's
\* PredictorWithAggregator rows, each once).
get_predictors == SortedSeq(DOMAIN aggregators)

\* Module.get_aggregator: {agg.predictor_id: agg.weight}; weight is a
\* FloatField(null=True), so a weight may be None.
get_aggregator == aggregators

\* Module.aggregate: np.sum(map(lambda pid: predictions[pid]*weights[pid], ...)).
\* Multiplying a prediction by None raises TypeError.  A prediction is
\* represented by one of its components (the arithmetic is per component).
aggregate_raises(predictions) ==
    \E pid \in DOMAIN predictions : get_aggregator[pid] = None

aggregate(predictions) ==
    SumOver(DOMAIN predictions,
            [pid \in DOMAIN predictions |-> predictions[pid] * get_aggregator[pid][1]])

\* predict_scores is entered: the comprehension starts over get_predictors.
PredictScoresCall(user, size) ==
    /\ mpc = "idle"
    /\ call' = <<user, size>>
    /\ todo' = get_predictors
    /\ recommendations' = << >>
    /\ recommendation' = None
    /\ calls' = << >>
    /\ mpc' = "predictors"
    /\ mexc' = None
    /\ UNCHANGED <<aggregators, notModuleVars>>

\* One iteration of the comprehension: get_predictor(pk, predictor_id)(user, size).
InvokePredictor(score) ==
    /\ mpc = "predictors"
    /\ todo # << >>
    /\ LET pid == Head(todo) IN
        /\ recommendations' = [p \in DOMAIN recommendations \cup {pid} |->
                                  IF p = pid THEN score ELSE recommendations[p]]
        /\ calls' = Append(calls, [stage |-> "predictor", id |-> pid, args |-> call])
    /\ todo' = Tail(todo)
    /\ UNCHANGED <<aggregators, call, recommendation, mpc, mexc, notModuleVars>>

\* recommendation = self.aggregate(recommendations)
Aggregate ==
    /\ mpc = "predictors"
    /\ todo = << >>
    /\ calls' = Append(calls, [stage |-> "aggregate", id |-> 0, args |-> call])
    /\ IF aggregate_raises(recommendations)
       THEN /\ mpc' = "raised"
            /\ mexc' = Some("TypeError")
            /\ UNCHANGED recommendation
       ELSE /\ mpc' = "filters"
            /\ recommendation' = Some(aggregate(recommendations))
            /\ UNCHANGED mexc
    /\ UNCHANGED <<aggregators, call, todo, recommendations, notModuleVars>>

\* for rfilter in self.get_filters(self.pk): Module defines get_module,
\* get_predictors, get_predictor and get_aggregator only; the attribute lookup of
\* get_filters (and of get_re_renkers after it) raises AttributeError.
GetFilters ==
    /\ mpc = "filters"
    /\ mpc' = "raised"
    /\ mexc' = Some("AttributeError")
    /\ UNCHANGED <<aggregators, call, todo, recommendations, recommendation, calls, notModuleVars>>

(***************************************************************************)
(* The bulk loader (recommendation/management/commands/fill.py)            *)
(***************************************************************************)

\* The per-statement row cap.  The source sets SQLITE_MAX_ROWS = 950; the model
\* keeps the cap's role at a scale the inputs below can exceed.
SQLITE_MAX_ROWS == 2
\* The largest number of records load_files puts in self.objects.
MaxObjects == 2

Min(a, b) == IF a <= b THEN a ELSE b

\* A set as a sequence, in an order that is fixed for a given set (the
\* iteration order of a dict's keys or values).
RECURSIVE SetToSeq(_)
SetToSeq(S) ==
    IF S = {} THEN << >>
    ELSE LET x == CHOOSE y \in S : TRUE IN <<x>> \o SetToSeq(S \ {x})

Range(seq) == {seq[i] : i \in DOMAIN seq}

\* ---- strings the loader takes apart are sequences of characters
LowerChar(c) ==
    CASE c = "E" -> "e" [] c = "N" -> "n" [] c = "U" -> "u" [] c = "S" -> "s" [] OTHER -> c

\* str.lower()
lower(string) == [i \in 1..Len(string) |-> LowerChar(string[i])]

\* str.split(sep)
RECURSIVE split(_, _)
split(string, sep) ==
    IF \E i \in 1..Len(string) : string[i] = sep
    THEN LET i == CHOOSE k \in 1..Len(string) :
                      string[k] = sep /\ \A j \in 1..(k - 1) : string[j] # sep
         IN <<SubSeq(string, 1, i - 1)>> \o split(SubSeq(string, i + 1, Len(string)), sep)
    ELSE <<string>>

\* str(value) of an identifier read from JSON: an int or a str, by its digits.
str(value) == [type |-> "str", repr |-> value.repr]

\* ---- the ORM
NextPk(table) ==
    IF table = {} THEN 1
    ELSE 1 + (CHOOSE n \in {r.pk : r \in table} : \A r \in table : r.pk <= n)

\* Model.objects.bulk_create(objs) on unsaved objects: one INSERT of all of them;
\* an empty list issues nothing.  st = [table, log].
bulk_create(st, name, objs) ==
    IF objs = << >> THEN st
    ELSE LET base == NextPk(st.table)
             rows == {[pk |-> base + i - 1] @@ objs[i] : i \in 1..Len(objs)}
         IN [table |-> st.table \cup rows,
             log |-> Append(st.log, [table |-> name, size |-> Len(objs),
                                     pks |-> {r.pk : r \in rows}])]

\* for i in range(0, len(objs), SQLITE_MAX_ROWS): bulk_create(objs[i:i+SQLITE_MAX_ROWS])
RECURSIVE bulk_create_chunks(_, _, _)
bulk_create_chunks(st, name, objs) ==
    IF objs = << >> THEN st
    ELSE LET j == Min(SQLITE_MAX_ROWS, Len(objs))
         IN bulk_create_chunks(bulk_create(st, name, SubSeq(objs, 1, j)), name,
                               SubSeq(objs, j + 1, Len(objs)))

\* if connection.vendor == "sqlite": chunks, else one bulk_create
bulk_create_by_vendor(st, name, objs) ==
    IF vendor = "sqlite" THEN bulk_create_chunks(st, name, objs)
    ELSE bulk_create(st, name, objs)

\* ---- JSON records
\* A field of a record: absent, null, or a list.
Absent == [present |-> FALSE, value |-> None]
Null == [present |-> TRUE, value |-> None]
List(l) == [present |-> TRUE, value |-> Some(l)]

\* json_item.get(field, None) or ()
get_or_empty(f) == IF f.present /\ f.value # None THEN f.value[1] ELSE << >>

\* lines 194-199: keep the records that carry the item file identifier, with
\* their identifier turned into a str
retained_items(objs) ==
    LET kept == SelectSeq(objs, LAMBDA o : o.is_item)
    IN [i \in 1..Len(kept) |-> [kept[i] EXCEPT !.id = str(@)]]

\* line 200: {json_item[self.item_field]: json_item for json_item in self.objects};
\* of two records with one identifier the later stays
json_items(objs) ==
    [eid \in {objs[i].id.repr : i \in DOMAIN objs} |->
        objs[CHOOSE i \in DOMAIN objs :
                /\ objs[i].id.repr = eid
                /\ \A j \in DOMAIN objs : objs[j].id.repr = eid => j <= i]]

\* {item.external_id: item for item in Item.objects.filter(external_id__in=eids)};
\* on sqlite the query runs per slice of SQLITE_MAX_ROWS keys, with the same union
items_by_eid(table, eids) ==
    LET rows == {r \in table : r.external_id \in eids}
    IN [eid \in {r.external_id : r \in rows} |-> CHOOSE r \in rows : r.external_id = eid]

\* A loader that forgets the test "if item_eid not in items".
new_item_eids_unchecked(ji, found) == DOMAIN ji

\* lines 216-225: the identifiers of json_items with no Item row
new_item_eids(ji, found) == {eid \in DOMAIN ji : eid \notin DOMAIN found}

\* lines 228-232: categories.union(json_item[self.item_genres_field]) is reached
\* whenever the field is not a string; an absent field raises KeyError there and
\* a null one TypeError
genres_exception(json_item) ==
    IF ~json_item.genres.present THEN Some("KeyError")
    ELSE IF json_item.genres.value = None THEN Some("TypeError")
    ELSE None

\* fill_db_with_items, lines 194-263
FillDbWithItems ==
    /\ fpc = "fill_db_with_items"
    /\ LET objs == retained_items(objects)
           ji == json_items(objs)
           found == items_by_eid(db_items, DOMAIN ji)
           bad == {eid \in DOMAIN ji : genres_exception(ji[eid]) # None}
           new_items == [eid \in new_item_eids(ji, found) |-> [external_id |-> eid]]
           new_items_list == SetToSeq(Range(new_items))
           st == bulk_create_by_vendor([table |-> db_items, log |-> statements],
                                       "Item", new_items_list)
           after == items_by_eid(st.table, DOMAIN ji) @@ found
       IN /\ objects' = objs
          /\ IF bad # {}
             THEN /\ \E eid \in bad :
                        fexc' = Some([at |-> "fill_db_with_items",
                                      type |-> genres_exception(ji[eid])[1]])
                  /\ fpc' = "raised"
                  /\ UNCHANGED <<db_items, statements, items, categories, locales>>
             ELSE /\ db_items' = st.table
                  /\ statements' = st.log
                  /\ items' = after
                  /\ categories' = UNION {Range(get_or_empty(ji[eid].genres)) : eid \in DOMAIN ji}
                  /\ locales' = UNION {Range(get_or_empty(ji[eid].locales)) : eid \in DOMAIN ji}
                  \* assert len(items) == len(self.objects)
                  /\ IF Cardinality(DOMAIN after) = Len(objs)
                     THEN fpc' = "genres" /\ fexc' = None
                     ELSE /\ fpc' = "raised"
                          /\ fexc' = Some([at |-> "fill_db_with_items", type |-> "AssertionError"])
    /\ UNCHANGED <<db_genres, db_locales, db_item_genres, db_item_locales, db_users,
                   db_inventory, vendor, apps, users, db_categories, db_locales_map,
                   notFillVars>>

\* ---- genres

\* {row.name: row for row in rows}
genres_by_name(rows) ==
    [name \in {r.name : r \in rows} |-> CHOOSE r \in rows : r.name = name]

\* get_genres(genres_names): [genres, table, log]
get_genres(genres_names) ==
    LET genres == genres_by_name({r \in db_genres : r.name \in genres_names})
    IN IF Cardinality(DOMAIN genres) # Cardinality(genres_names)
       THEN LET new_genres == {name \in genres_names : name \notin DOMAIN genres}
                new_genres_list == SetToSeq({[name |-> name] : name \in new_genres})
                st == bulk_create_by_vendor([table |-> db_genres, log |-> statements],
                                            "Genre", new_genres_list)
            IN [genres |-> genres_by_name({r \in st.table : r.name \in new_genres}) @@ genres,
                table |-> st.table, log |-> st.log]
       ELSE [genres |-> genres, table |-> db_genres, log |-> statements]

\* lines 265-267: db_categories = self.get_genres(categories), when the diversity
\* app is installed and TESTING_MODE is off
GetGenres ==
    /\ fpc = "genres"
    /\ IF "recommendation.diversity" \in apps
       THEN LET r == get_genres(categories)
            IN /\ db_categories' = r.genres
               /\ db_genres' = r.table
               /\ statements' = r.log
               /\ fpc' = "fill_item_genre"
       ELSE /\ fpc' = "locales"
            /\ UNCHANGED <<db_categories, db_genres, statements>>
    /\ UNCHANGED <<db_items, db_locales, db_item_genres, db_item_locales, db_users,
                   db_inventory, vendor, apps, objects, items, users, categories, locales,
                   db_locales_map, fexc, notFillVars>>

\* ---- link tables: a row of ItemGenre or ItemLocale with its key
\* A filter that finds no existing link.
filter_q_none(keyed_rows, q) == {}

\* Model.objects.filter(q), q a disjunction of key conditions; the empty Q()
\* puts no condition, and the filter returns every row
filter_q(keyed_rows, q) ==
    IF q = {} THEN keyed_rows ELSE {r \in keyed_rows : r.key \in q}

\* for row in rows: del d[key of row] raises KeyError when a key is not in d
del_raises(d, rows) ==
    \/ \E r \in rows : r.key \notin d
    \/ \E r1, r2 \in rows : r1 # r2 /\ r1.key = r2.key

\* The sqlite loops of fill_item_genre and fill_item_locale over the pairs of
\* the input: q is the running Q(), d the keys of the dict of new links, i the
\* counter; at i >= SQLITE_MAX_ROWS the links found by q leave d and q restarts.
RECURSIVE scan_pairs(_, _, _, _, _)
scan_pairs(pairs, keyed_rows, q, d, i) ==
    IF pairs = << >> THEN [q |-> q, d |-> d, exc |-> None]
    ELSE LET q1 == q \cup {Head(pairs)}
             d1 == d \cup {Head(pairs)}
         IN IF i + 1 >= SQLITE_MAX_ROWS
            THEN LET rows == filter_q(keyed_rows, q1)
                 IN IF del_raises(d1, rows)
                    THEN [q |-> q1, d |-> d1, exc |-> Some("KeyError")]
                    ELSE scan_pairs(Tail(pairs), keyed_rows, {},
                                    d1 \ {r.key : r \in rows}, 0)
            ELSE scan_pairs(Tail(pairs), keyed_rows, q1, d1, i + 1)

\* The final filter and deletions, common to both branches.
finish_pairs(sc, keyed_rows) ==
    IF sc.exc # None THEN sc
    ELSE LET rows == filter_q(keyed_rows, sc.q)
         IN IF del_raises(sc.d, rows)
            THEN [sc EXCEPT !.exc = Some("KeyError")]
            ELSE [sc EXCEPT !.d = @ \ {r.key : r \in rows}]

RECURSIVE Flatten(_)
Flatten(seqs) == IF seqs = << >> THEN << >> ELSE Head(seqs) \o Flatten(Tail(seqs))

item_genre_rows == {[pk |-> r.pk, key |-> <<r.item_id, r.type_id>>] : r \in db_item_genres}

\* the (item pk, genre pk) pairs of self.objects, in the order of the loops
item_genre_pairs(its, genres) ==
    Flatten([n \in 1..Len(objects) |->
        LET json_genres == get_or_empty(objects[n].genres)
        IN [k \in 1..Len(json_genres) |->
               <<its[objects[n].id.repr].pk, genres[json_genres[k]].pk>>]])

\* fill_item_genre(items, genres): [table, log, exc]
fill_item_genre(its, genres) ==
    LET pairs == item_genre_pairs(its, genres)
        sc == IF vendor = "sqlite"
              THEN finish_pairs(scan_pairs(pairs, item_genre_rows, {}, {}, 0), item_genre_rows)
              ELSE finish_pairs([q |-> Range(pairs), d |-> Range(pairs), exc |-> None],
                                item_genre_rows)
        item_genres == SetToSeq({[item_id |-> key[1], type_id |-> key[2]] : key \in sc.d})
        unchanged == [table |-> db_item_genres, log |-> statements]
    IN IF sc.exc # None
       THEN unchanged @@ [exc |-> sc.exc]
       ELSE IF vendor = "sqlite"
       THEN bulk_create_chunks(unchanged, "ItemGenre", item_genres) @@ [exc |-> None]
       \* ItemGenre.objects.bulk_create(item_genres): the dict itself, whose
       \* elements are its keys, tuples without a pk attribute
       ELSE IF item_genres = << >> THEN unchanged @@ [exc |-> None]
       ELSE [table |-> db_item_genres,
             log |-> Append(statements, [table |-> "ItemGenre", size |-> Len(item_genres),
                                         pks |-> {}]),
             exc |-> Some("AttributeError")]

\* line 268: self.fill_item_genre(items, db_categories)
FillItemGenre ==
    /\ fpc = "fill_item_genre"
    /\ LET r == fill_item_genre(items, db_categories)
       IN /\ db_item_genres' = r.table
          /\ statements' = r.log
          /\ IF r.exc = None
             THEN fpc' = "locales" /\ fexc' = None
             ELSE fpc' = "raised" /\ fexc' = Some([at |-> "fill_item_genre", type |-> r.exc[1]])
    /\ UNCHANGED <<db_items, db_genres, db_locales, db_item_locales, db_users, db_inventory,
                   vendor, apps, objects, items, users, categories, locales, db_categories,
                   db_locales_map, notFillVars>>

\* ---- locales

\* Locale.__str__: "%s%s" % (language_code, "-%s" % country_code if country_code else "")
Locale_str(row) ==
    row.language_code \o (IF row.country_code # << >> THEN <<"-">> \o row.country_code ELSE << >>)

\* lines 312-315: language_code, country_code = locale.split("-"), and on
\* ValueError (not exactly two parts) locale, ""
locale_codes(locale) ==
    LET parts == split(locale, "-")
    IN IF Len(parts) = 2 THEN <<parts[1], parts[2]>> ELSE <<locale, << >> >>

\* line 316
respects_format(locale) ==
    Len(locale_codes(locale)[1]) < 3 /\ Len(locale_codes(locale)[2]) < 3

\* Locale.objects.filter(q), q a disjunction of Q(language_code=, country_code=);
\* the empty Q() returns every row.  Codes compare exactly.
filter_locales(table, q) ==
    IF q = {} THEN table ELSE {r \in table : <<r.language_code, r.country_code>> \in q}

\* {str(locale): locale for locale in rows}
locales_by_str(rows) ==
    [name \in {Locale_str(r) : r \in rows} |-> CHOOSE r \in rows : Locale_str(r) = name]

\* unique_together = ("language_code", "country_code")
violates_unique(table, objs) ==
    \/ \E i \in DOMAIN objs : \E r \in table :
          r.language_code = objs[i].language_code /\ r.country_code = objs[i].country_code
    \/ \E i, j \in DOMAIN objs : i # j /\ objs[i] = objs[j]

\* get_locales(locales_names): [locales, table, log, exc]
get_locales(locales_names) ==
    LET json_locales == [l \in {n \in locales_names : respects_format(n)} |-> locale_codes(l)]
        query_locales == {json_locales[l] : l \in DOMAIN json_locales}
        found == locales_by_str(filter_locales(db_locales, query_locales))
    IN IF Cardinality(DOMAIN found) # Cardinality(locales_names)
       THEN LET new_names == {l \in locales_names : l \notin DOMAIN found /\ l \in DOMAIN json_locales}
                new_locales == SetToSeq({[language_code |-> json_locales[l][1],
                                          country_code |-> json_locales[l][2]] : l \in new_names})
                new_query == {json_locales[l] : l \in new_names}
                st == bulk_create_by_vendor([table |-> db_locales, log |-> statements],
                                            "Locale", new_locales)
            IN IF violates_unique(db_locales, new_locales)
               THEN [locales |-> found, table |-> db_locales, log |-> statements,
                     exc |-> Some("IntegrityError")]
               ELSE [locales |-> locales_by_str(filter_locales(st.table, new_query)) @@ found,
                     table |-> st.table, log |-> st.log, exc |-> None]
       ELSE [locales |-> found, table |-> db_locales, log |-> statements, exc |-> None]

\* lines 271-273: db_locales = self.get_locales(locales), when the language app
\* is installed and TESTING_MODE is off
GetLocales ==
    /\ fpc = "locales"
    /\ IF "recommendation.language" \in apps
       THEN LET r == get_locales(locales)
            IN /\ db_locales_map' = r.locales
               /\ db_locales' = r.table
               /\ statements' = r.log
               /\ IF r.exc = None
                  THEN fpc' = "fill_item_locale" /\ fexc' = None
                  ELSE fpc' = "raised" /\ fexc' = Some([at |-> "get_locales", type |-> r.exc[1]])
       ELSE /\ fpc' = "done"
            /\ UNCHANGED <<db_locales_map, db_locales, statements, fexc>>
    /\ UNCHANGED <<db_items, db_genres, db_item_genres, db_item_locales, db_users,
                   db_inventory, vendor, apps, objects, items, users, categories, locales,
                   db_categories, notFillVars>>

item_locale_rows == {[pk |-> r.pk, key |-> <<r.locale_id, r.item_id>>] : r \in db_item_locales}

\* the (locale pk, item pk) pairs of self.objects whose locale is in locales
item_locale_pairs(its, locs) ==
    Flatten([n \in 1..Len(objects) |->
        LET json_locales == SelectSeq(get_or_empty(objects[n].locales),
                                      LAMBDA l : l \in DOMAIN locs)
        IN [k \in 1..Len(json_locales) |->
               <<locs[json_locales[k]].pk, its[objects[n].id.repr].pk>>]])

\* fill_item_locale(items, locales): [table, log, exc]
fill_item_locale(its, locs) ==
    LET pairs == item_locale_pairs(its, locs)
        sc == IF vendor = "sqlite"
              THEN finish_pairs(scan_pairs(pairs, item_locale_rows, {}, {}, 0), item_locale_rows)
              ELSE finish_pairs([q |-> Range(pairs), d |-> Range(pairs), exc |-> None],
                                item_locale_rows)
        item_locales_values == SetToSeq({[locale_id |-> key[1], item_id |-> key[2]] : key \in sc.d})
        unchanged == [table |-> db_item_locales, log |-> statements]
    IN IF sc.exc # None
       THEN unchanged @@ [exc |-> sc.exc]
       ELSE bulk_create_by_vendor(unchanged, "ItemLocale", item_locales_values) @@ [exc |-> None]

\* line 274: self.fill_item_locale(items, db_locales)
FillItemLocale ==
    /\ fpc = "fill_item_locale"
    /\ LET r == fill_item_locale(items, db_locales_map)
       IN /\ db_item_locales' = r.table
          /\ statements' = r.log
          /\ IF r.exc = None
             THEN fpc' = "done" /\ fexc' = None
             ELSE fpc' = "raised" /\ fexc' = Some([at |-> "fill_item_locale", type |-> r.exc[1]])
    /\ UNCHANGED <<db_items, db_genres, db_locales, db_item_genres, db_users, db_inventory,
                   vendor, apps, objects, items, users, categories, locales, db_categories,
                   db_locales_map, notFillVars>>

\* Locale(language_code=..., country_code=...).save(): the codes are lower-cased,
\* then the row is written; unique_together rejects a second row with the codes.
LocaleSave(language_code, country_code) ==
    /\ fpc = "fill_db_with_items"
    /\ LET obj == [language_code |-> lower(language_code), country_code |-> lower(country_code)]
       IN /\ ~violates_unique(db_locales, <<obj>>)
          /\ db_locales' = db_locales \cup {[pk |-> NextPk(db_locales)] @@ obj}
    /\ UNCHANGED <<db_items, db_genres, db_item_genres, db_item_locales, db_users,
                   db_inventory, statements, fillVars, notFillVars>>

\* ---- users and inventory

\* datetime.strptime(text, self.date_format), by the day the text names
strptime(text) ==
    CASE text = "2015-01-01T00:00:00" -> 20150101
      [] text = "2015-01-02T00:00:00" -> 20150102

\* lines 450-457: keep the records that carry the user file identifier, with
\* the user identifier and the item identifiers turned into str
retained_users(objs) ==
    LET kept == SelectSeq(objs, LAMBDA o : o.is_user)
    IN [i \in 1..Len(kept) |->
           [kept[i] EXCEPT !.id = str(@),
                           !.items = IF @.present
                                     THEN List([k \in DOMAIN @.value[1] |->
                                                   [@.value[1][k] EXCEPT !.id = str(@)]])
                                     ELSE @]]

\* {row.external_id: row for row in User.objects.filter(external_id__in=eids)}
users_by_eid(table, eids) ==
    LET rows == {r \in table : r.external_id \in eids}
    IN [eid \in {r.external_id : r \in rows} |-> CHOOSE r \in rows : r.external_id = eid]

\* json_user.get(self.user_items_field, ())
user_items(json_user) == IF json_user.items.present THEN json_user.items.value[1] ELSE << >>

\* fill_db_with_users, lines 450-479
FillDbWithUsers ==
    /\ fpc = "fill_db_with_users"
    /\ LET objs == retained_users(objects)
           json_users == json_items(objs)
           found == users_by_eid(db_users, DOMAIN json_users)
           new_users == {eid \in DOMAIN json_users : eid \notin DOMAIN found}
           item_eids == UNION {{user_items(json_users[eid])[k].id.repr :
                                   k \in DOMAIN user_items(json_users[eid])} :
                               eid \in DOMAIN json_users}
           \* User.objects.bulk_create(new_users.values()), whatever the vendor
           st == bulk_create([table |-> db_users, log |-> statements], "User",
                             SetToSeq({[external_id |-> eid] : eid \in new_users}))
           after == users_by_eid(st.table, new_users) @@ found
       IN /\ objects' = objs
          /\ db_users' = st.table
          /\ statements' = st.log
          /\ users' = after
          /\ items' = items_by_eid(db_items, item_eids)
          \* assert len(users) == len(self.objects)
          /\ IF Cardinality(DOMAIN after) = Len(objs)
             THEN fpc' = "fill_inventory" /\ fexc' = None
             ELSE /\ fpc' = "raised"
                  /\ fexc' = Some([at |-> "fill_db_with_users", type |-> "AssertionError"])
    /\ UNCHANGED <<db_items, db_genres, db_locales, db_item_genres, db_item_locales,
                   db_inventory, vendor, apps, categories, locales, db_categories,
                   db_locales_map, notFillVars>>

\* lines 493-506: the dict inventory, (item_id, user_id) -> unsaved Inventory; a
\* later entry of the input replaces an earlier one with its key; an entry
\* whose item is not in items is skipped with a warning
RECURSIVE inventory_of(_, _, _)
inventory_of(entries, its, inventory) ==
    IF entries = << >> THEN inventory
    ELSE LET e == Head(entries)
         IN IF e.item \notin DOMAIN its THEN inventory_of(Tail(entries), its, inventory)
            ELSE LET key == <<its[e.item].pk, e.user_pk>>
                     inv == [pk |-> None, item_id |-> key[1], user_id |-> key[2],
                             acquisition_date |-> Some(strptime(e.acquired)),
                             dropped_date |-> IF e.dropped = None THEN None
                                              ELSE Some(strptime(e.dropped[1]))]
                 IN inventory_of(Tail(entries), its,
                                 [k \in DOMAIN inventory \cup {key} |->
                                     IF k = key THEN inv ELSE inventory[k]])

\* the entries of self.objects, in the order of the loops
inventory_entries(usrs) ==
    Flatten([n \in 1..Len(objects) |->
        [k \in DOMAIN user_items(objects[n]) |->
            [item |-> user_items(objects[n])[k].id.repr,
             user_pk |-> usrs[objects[n].id.repr].pk,
             acquired |-> user_items(objects[n])[k].acquired,
             dropped |-> user_items(objects[n])[k].dropped]]])

\* lines 508-518, for one row inv of Inventory.objects.filter(query_inventory):
\* a row with other dates takes the input's dates and replaces the dict's
\* entry, keeping its pk; a row with the same dates leaves the dict
RECURSIVE merge_existing(_, _)
merge_existing(rows, inventory) ==
    IF rows = << >> THEN inventory
    ELSE LET inv == Head(rows)
             key == <<inv.item_id, inv.user_id>>
         IN IF key \notin DOMAIN inventory THEN merge_existing(Tail(rows), inventory)
            ELSE IF \/ inv.acquisition_date # inventory[key].acquisition_date
                    \/ inv.dropped_date # inventory[key].dropped_date
            THEN merge_existing(Tail(rows),
                    [inventory EXCEPT ![key] =
                        [pk |-> Some(inv.pk), item_id |-> inv.item_id, user_id |-> inv.user_id,
                         acquisition_date |-> inventory[key].acquisition_date,
                         dropped_date |-> inventory[key].dropped_date]])
            ELSE merge_existing(Tail(rows),
                    [k \in DOMAIN inventory \ {key} |-> inventory[k]])

\* Inventory.objects.bulk_create(objs), objs holding saved objects too: an
\* object with a pk is inserted with that pk, which the table already holds,
\* and the insert fails as a whole with IntegrityError
bulk_create_inventory(st, objs) ==
    IF objs = << >> THEN st @@ [exc |-> None]
    ELSE IF \E i \in DOMAIN objs : objs[i].pk # None /\ \E r \in st.table : r.pk = objs[i].pk[1]
    THEN [table |-> st.table,
          log |-> Append(st.log, [table |-> "Inventory", size |-> Len(objs), pks |-> {}]),
          exc |-> Some("IntegrityError")]
    ELSE bulk_create(st, "Inventory",
                     [i \in DOMAIN objs |-> [item_id |-> objs[i].item_id,
                                             user_id |-> objs[i].user_id,
                                             acquisition_date |-> objs[i].acquisition_date,
                                             dropped_date |-> objs[i].dropped_date]])
         @@ [exc |-> None]

\* fill_inventory(users, items): [table, log, exc]
fill_inventory(usrs, its) ==
    LET inventory == inventory_of(inventory_entries(usrs), its, << >>)
        query_inventory == DOMAIN inventory
        \* Inventory.objects.filter(Q()) returns every row
        rows == IF query_inventory = {} THEN db_inventory
                ELSE {r \in db_inventory : <<r.item_id, r.user_id>> \in query_inventory}
        merged == merge_existing(SetToSeq(rows), inventory)
    IN bulk_create_inventory([table |-> db_inventory, log |-> statements],
                             SetToSeq(Range(merged)))

\* line 481: self.fill_inventory(users, items)
FillInventory ==
    /\ fpc = "fill_inventory"
    /\ LET r == fill_inventory(users, items)
       IN /\ db_inventory' = r.table
          /\ statements' = r.log
          /\ IF r.exc = None
             THEN fpc' = "done" /\ fexc' = None
             ELSE fpc' = "raised" /\ fexc' = Some([at |-> "fill_inventory", type |-> r.exc[1]])
    /\ UNCHANGED <<db_items, db_genres, db_locales, db_item_genres, db_item_locales, db_users,
                   vendor, apps, objects, items, users, categories, locales, db_categories,
                   db_locales_map, notFillVars>>

(***************************************************************************)
(* FillTool.__init__ and FillTool.load                                     *)
(***************************************************************************)

\* A file of a directory or a member of a tarball: json says that its name ends
\* in .json (and does not start with a dot), content is the record json.load
\* reads from it, None when the text is not JSON.

\* Python's truth of a nullable string: None and "" are false
truthy(x) == x # None /\ x[1] # ""

\* The names tempfile.mkdtemp(suffix="_frappe") hands out.
TmpNames == {"/tmp/tmp1_frappe", "/tmp/tmp2_frappe"}

\* tempfile.mkdtemp: a directory that did not exist
mkdtemp(fs) == CHOOSE d \in TmpNames : d \notin DOMAIN fs

\* json_files(members): the .json members only
json_files(members) == SelectSeq(members, LAMBDA m : m.json)

\* get_files(url): the tarball is fetched into a fresh directory as tmp.tgz and
\* its .json members extracted there; tar = None is a fetch or an archive that
\* fails (urlretrieve or tarfile.open raises), after mkdtemp made the directory
get_files(fs, tar) ==
    LET tmp_path == mkdtemp(fs)
        tmp_file == [json |-> FALSE, content |-> None]
    IN IF tar = None
       THEN [files |-> (tmp_path :> << >>) @@ fs, tmp_path |-> tmp_path, exc |-> Some("IOError")]
       ELSE [files |-> (tmp_path :> (<<tmp_file>> \o json_files(tar[1]))) @@ fs,
             tmp_path |-> tmp_path, exc |-> None]

\* get_date: datetime.strptime(self.parameters["<date>"], "%Y-%m.%d") raises
\* ValueError for a date that is not written year-month.day
get_date_raises(p) == p.date # None /\ p.date[1] # "2015-01.02"

\* A clean_tmp that leaves the directory in place.
rmtree_skipped(fs, dir) == fs

\* shutil.rmtree(dir); of a directory that is not there it raises ENOENT,
\* which clean_tmp swallows
rmtree(fs, dir) == [d \in DOMAIN fs \ {dir} |-> fs[d]]

\* clean_tmp
clean_tmp(fs) == rmtree(fs, tmp_dir[1])

\* FillTool.__init__(parameters), lines 74-122; tar is what the url serves
Construct(tar) ==
    /\ lpc = "new"
    /\ LET fetch == get_files(files, tar)
           fetches == /\ ~parameters.version
                      /\ \/ truthy(parameters.webservice)
                         \/ parameters.mozilla /\ (parameters.dev \/ parameters.prod)
       IN IF ~fetches
          THEN /\ lpc' = "constructed"
               /\ lexc' = None
               /\ IF ~parameters.version /\ (parameters.mozilla \/ truthy(parameters.path))
                  THEN path' = parameters.path /\ use_tmp' = FALSE
                  ELSE UNCHANGED <<path, use_tmp>>
               /\ UNCHANGED <<tmp_dir, files>>
          ELSE IF ~truthy(parameters.webservice) /\ get_date_raises(parameters)
          THEN /\ lpc' = "init_raised"
               /\ lexc' = Some("ValueError")
               /\ UNCHANGED <<path, use_tmp, tmp_dir, files>>
          ELSE /\ files' = fetch.files
               /\ IF fetch.exc = None
                  THEN /\ path' = Some(fetch.tmp_path)
                       /\ tmp_dir' = Some(fetch.tmp_path)
                       /\ lpc' = "constructed"
                       /\ lexc' = None
                  ELSE /\ lpc' = "init_raised"
                       /\ lexc' = fetch.exc
                       /\ UNCHANGED <<path, tmp_dir>>
               /\ UNCHANGED use_tmp
    /\ UNCHANGED <<parameters, moduleVars, cacheVars, storeVars, fillVars, first_run>>

\* load, lines 159-160: if self.path
Load ==
    /\ lpc = "constructed"
    /\ lpc' = IF truthy(path) THEN "load_files" ELSE "returned"
    /\ UNCHANGED <<parameters, path, tmp_dir, use_tmp, files, lexc,
                   moduleVars, cacheVars, storeVars, fillVars, first_run>>

\* load_files, lines 171-179: every .json file of the path is read and appended
\* to self.objects; json.load raises ValueError on the first that is not JSON.
\* os.walk of a path that is not there yields nothing.
LoadFiles ==
    /\ lpc = "load_files"
    /\ LET entries == IF path[1] \in DOMAIN files THEN files[path[1]] ELSE << >>
           js == SelectSeq(entries, LAMBDA f : f.json)
           bad == {i \in DOMAIN js : js[i].content = None}
           n == IF bad = {} THEN Len(js)
                ELSE (CHOOSE i \in bad : \A j \in bad : i <= j) - 1
       IN /\ objects' = [i \in 1..n |-> js[i].content[1]]
          /\ IF bad = {}
             THEN lpc' = "fill_db" /\ lexc' = None
             ELSE lpc' = "finally" /\ lexc' = Some("ValueError")
    /\ UNCHANGED <<parameters, path, tmp_dir, use_tmp, files, moduleVars, cacheVars, storeVars,
                   vendor, apps, items, users, categories, locales, db_categories,
                   db_locales_map, fpc, fexc, first_run>>

\* fill_db, lines 181-188
FillDb ==
    /\ lpc = "fill_db"
    /\ fpc = "idle"
    /\ fpc' = IF parameters.items THEN "fill_db_with_items" ELSE "fill_db_with_users"
    /\ UNCHANGED <<toolVars, moduleVars, cacheVars, storeVars, vendor, apps, objects, items,
                   users, categories, locales, db_categories, db_locales_map, fexc, first_run>>

\* load, lines 165-169: the finally clause, reached when load_files raised and
\* when fill_db returned or raised
Finally ==
    /\ \/ lpc = "finally"
       \/ lpc = "fill_db" /\ fpc \in {"done", "raised"}
    /\ LET pending == IF lpc = "finally" THEN lexc
                      ELSE IF fpc = "raised" THEN Some(fexc[1].type) ELSE None
       IN /\ files' = IF use_tmp THEN clean_tmp(files) ELSE files
          /\ lexc' = pending
          /\ lpc' = IF pending = None THEN "returned" ELSE "raised"
    /\ UNCHANGED <<parameters, path, tmp_dir, use_tmp, moduleVars, cacheVars, storeVars,
                   fillVars, first_run>>

\* ---- the loader run again
\* The tables of the store.
store == [Item |-> db_items, Genre |-> db_genres, Locale |-> db_locales,
          ItemGenre |-> db_item_genres, ItemLocale |-> db_item_locales,
          User |-> db_users, Inventory |-> db_inventory]

\* fill_db_with_items called a second time on the same self.objects, once the
\* first call has returned or raised (the command run again on its input, lines
\* 526-530); the locals of the method start afresh
RunAgain ==
    /\ fpc \in {"done", "raised"}
    /\ first_run = None
    /\ first_run' = Some([store |-> store, statements |-> Len(statements)])
    /\ fpc' = "fill_db_with_items"
    /\ fexc' = None
    /\ items' = << >>
    /\ categories' = {}
    /\ locales' = {}
    /\ db_categories' = << >>
    /\ db_locales_map' = << >>
    /\ UNCHANGED <<storeVars, vendor, apps, objects, users, moduleVars, cacheVars, toolVars>>

(***************************************************************************)
(* Specifications                                                          *)
(***************************************************************************)
\* ---- the docopt arguments of the fill command
Arguments(items_, version, webservice, mozilla, dev, prod, date, path_) ==
    [items |-> items_, version |-> version, webservice |-> webservice, mozilla |-> mozilla,
     dev |-> dev, prod |-> prod, date |-> date, path |-> path_]

\* No FillTool under construction and no second run.
IdleTool ==
    /\ parameters = Arguments(TRUE, TRUE, None, FALSE, FALSE, FALSE, None, None)
    /\ path = None
    /\ tmp_dir = None
    /\ use_tmp = TRUE
    /\ files = << >>
    /\ lpc = "idle"
    /\ lexc = None
    /\ first_run = None

IdleModule ==
    /\ aggregators = << >>
    /\ call = << >>
    /\ todo = << >>
    /\ recommendations = << >>
    /\ recommendation = None
    /\ calls = << >>
    /\ mpc = "idle"
    /\ mexc = None

\* ---- inputs of the loader
EN == <<"e", "n">>
EN_US == <<"e", "n", "-", "U", "S">>
ENG == <<"e", "n", "g">>

ItemIdentifiers == {[type |-> "int", repr |-> "1"], [type |-> "str", repr |-> "1"],
                    [type |-> "str", repr |-> "2"]}

\* The genres and locales fields of the item records.
ItemFields ==
    {[genres |-> List(<<"g1">>), locales |-> List(<<EN_US>>)],
     [genres |-> List(<<"g1", "g2">>), locales |-> List(<<EN_US, ENG>>)],
     [genres |-> List(<< >>), locales |-> List(<<ENG>>)],
     [genres |-> Null, locales |-> Absent],
     [genres |-> Absent, locales |-> Null]}

ItemRecords ==
    {[is_item |-> TRUE, id |-> id, genres |-> f.genres, locales |-> f.locales] :
        id \in ItemIdentifiers, f \in ItemFields}
    \cup {[is_item |-> FALSE, id |-> [type |-> "str", repr |-> "2"],
           genres |-> Absent, locales |-> Absent]}

\* The codes Locale.save is called with.
SavedCodes == {<<EN, << >> >>, <<EN, <<"U", "S">> >>}

\* The stores the loader starts from: empty, or holding one item with its
\* genre and locale links.  An Item's external_id is unique.
LoadedStore(eid) ==
    /\ db_items = {[pk |-> 1, external_id |-> eid]}
    /\ db_genres = {[pk |-> 1, name |-> "g1"]}
    /\ db_locales = {[pk |-> 1, language_code |-> EN, country_code |-> <<"u", "s">>]}
    /\ db_item_genres = {[pk |-> 1, item_id |-> 1, type_id |-> 1]}
    /\ db_item_locales = {[pk |-> 1, locale_id |-> 1, item_id |-> 1]}
    /\ db_users = {}
    /\ db_inventory = {}
    /\ statements = << >>

SeqsUpTo(S, n) == UNION {[1..k -> S] : k \in 0..n}

EmptyStore ==
    /\ db_items = {}
    /\ db_genres = {}
    /\ db_locales = {}
    /\ db_item_genres = {}
    /\ db_item_locales = {}
    /\ db_users = {}
    /\ db_inventory = {}
    /\ statements = << >>

IdleFill ==
    /\ EmptyStore
    /\ vendor = "sqlite"
    /\ apps = {}
    /\ objects = << >>
    /\ items = << >>
    /\ users = << >>
    /\ categories = {}
    /\ locales = {}
    /\ db_categories = << >>
    /\ db_locales_map = << >>
    /\ fpc = "idle"
    /\ fexc = None

InitModule ==
    /\ IdleCache
    /\ IdleFill
    /\ IdleTool
    /\ aggregators \in UNION {[S -> NullableWeights] : S \in SUBSET PredictorIds}
    /\ call = << >>
    /\ todo = << >>
    /\ recommendations = << >>
    /\ recommendation = None
    /\ calls = << >>
    /\ mpc = "idle"
    /\ mexc = None

NextModule ==
    \/ \E user \in 1..MaxUser, size \in 1..MaxSize : PredictScoresCall(user, size)
    \/ \E score \in Scores : InvokePredictor(score)
    \/ Aggregate
    \/ GetFilters

SpecModule == InitModule /\ [][NextModule]_vars

InitCache ==
    /\ IdleCache
    /\ IdleModule
    /\ IdleFill
    /\ IdleTool

NextCache ==
    \/ \E pk \in LocalePks, pk_set \in SUBSET ItemPks \ {{}} : LocaleItemsAdd(pk, pk_set)
    \/ \E pk \in LocalePks, pk_set \in SUBSET ItemPks \ {{}}, rb \in BOOLEAN :
          LocaleItemsRemove(pk, pk_set, rb)
    \/ \E pk \in LocalePks, pk_set \in SUBSET UserPks \ {{}} : LocaleUsersAdd(pk, pk_set)
    \/ \E pk \in LocalePks, pk_set \in SUBSET UserPks \ {{}}, rb \in BOOLEAN :
          LocaleUsersRemove(pk, pk_set, rb)

SpecCache == InitCache /\ [][NextCache]_vars

InitItems ==
    /\ IdleModule
    /\ IdleCache
    /\ IdleTool
    /\ EmptyStore \/ LoadedStore("1") \/ LoadedStore("3")
    /\ vendor \in {"sqlite", "postgresql"}
    /\ apps \in SUBSET {"recommendation.diversity", "recommendation.language"}
    /\ objects \in SeqsUpTo(ItemRecords, MaxObjects)
    /\ items = << >>
    /\ users = << >>
    /\ categories = {}
    /\ locales = {}
    /\ db_categories = << >>
    /\ db_locales_map = << >>
    /\ fpc = "fill_db_with_items"
    /\ fexc = None

NextItems ==
    \/ \E codes \in SavedCodes : LocaleSave(codes[1], codes[2])
    \/ FillDbWithItems
    \/ GetGenres
    \/ FillItemGenre
    \/ GetLocales
    \/ FillItemLocale

SpecItems == InitItems /\ [][NextItems]_vars

\* The item loader run twice in a row on one input.
NextItemsTwice ==
    \/ FillDbWithItems
    \/ GetGenres
    \/ FillItemGenre
    \/ GetLocales
    \/ FillItemLocale
    \/ RunAgain

SpecItemsTwice == InitItems /\ [][NextItemsTwice]_vars

\* ---- inputs of the user loader
\* The largest number of records load_files puts in self.objects of a user load.
MaxUserObjects == 3

UserIdentifiers == ItemIdentifiers \cup {[type |-> "str", repr |-> "3"]}

Entry(id, acquired, dropped) == [id |-> id, acquired |-> acquired, dropped |-> dropped]

Day1 == "2015-01-01T00:00:00"
Day2 == "2015-01-02T00:00:00"

\* The items field of the user records; item "9" is not in the store.
UserItemsFields ==
    {Absent,
     List(<<Entry([type |-> "int", repr |-> "1"], Day1, None)>>),
     List(<<Entry([type |-> "str", repr |-> "1"], Day2, Some(Day2))>>),
     List(<<Entry([type |-> "str", repr |-> "1"], Day1, None),
            Entry([type |-> "int", repr |-> "2"], Day1, None)>>),
     List(<<Entry([type |-> "str", repr |-> "9"], Day1, None)>>)}

UserRecords ==
    {[is_user |-> TRUE, id |-> id, items |-> f] : id \in UserIdentifiers, f \in UserItemsFields}
    \cup {[is_user |-> FALSE, id |-> [type |-> "str", repr |-> "2"], items |-> Absent]}

\* The store a user load starts from: two items, and either no user or user
\* "1" holding item "1" since the first day.
UserStore(loaded) ==
    /\ db_items = {[pk |-> 1, external_id |-> "1"], [pk |-> 2, external_id |-> "2"]}
    /\ db_genres = {}
    /\ db_locales = {}
    /\ db_item_genres = {}
    /\ db_item_locales = {}
    /\ db_users = IF loaded THEN {[pk |-> 1, external_id |-> "1"]} ELSE {}
    /\ db_inventory = IF loaded
                      THEN {[pk |-> 1, item_id |-> 1, user_id |-> 1,
                             acquisition_date |-> Some(strptime(Day1)), dropped_date |-> None]}
                      ELSE {}
    /\ statements = << >>

InitUsers ==
    /\ IdleModule
    /\ IdleCache
    /\ IdleTool
    /\ \E loaded \in BOOLEAN : UserStore(loaded)
    /\ vendor \in {"sqlite", "postgresql"}
    /\ apps = {}
    /\ objects \in SeqsUpTo(UserRecords, MaxUserObjects)
    /\ items = << >>
    /\ users = << >>
    /\ categories = {}
    /\ locales = {}
    /\ db_categories = << >>
    /\ db_locales_map = << >>
    /\ fpc = "fill_db_with_users"
    /\ fexc = None

NextUsers ==
    \/ FillDbWithUsers
    \/ FillInventory

SpecUsers == InitUsers /\ [][NextUsers]_vars

\* ---- inputs of FillTool.__init__ and load
\* The largest number of files of a directory and of members of a tarball.
MaxFiles == 2

\* The command lines docopt accepts (the usage patterns of the docstring):
\* fill (items|users) <path>, fill (items|users) --webservice=<url>,
\* fill items --mozilla (dev | prod) [<date>], fill (items|users) --mozilla <path>,
\* fill --version.
Parameters ==
    {Arguments(i, FALSE, None, FALSE, FALSE, FALSE, None, Some(p)) :
        i \in BOOLEAN, p \in {"/data", ""}}
    \cup {Arguments(i, FALSE, Some("http://host/dump.tgz"), FALSE, FALSE, FALSE, None, None) :
             i \in BOOLEAN}
    \cup {Arguments(TRUE, FALSE, None, TRUE, dev, ~dev, date, None) :
             dev \in BOOLEAN, date \in {None, Some("2015-01.02"), Some("2015-01-02")}}
    \cup {Arguments(i, FALSE, None, TRUE, FALSE, FALSE, None, Some("/data")) : i \in BOOLEAN}
    \cup {Arguments(TRUE, TRUE, None, FALSE, FALSE, FALSE, None, None)}

\* The records the files hold: item records for an item load, user records
\* for a user load.
FileRecords(is_item) ==
    IF is_item THEN {r \in ItemRecords : r.id = [type |-> "str", repr |-> "2"]}
    ELSE {r \in UserRecords : r.id = [type |-> "str", repr |-> "1"] \/ ~r.is_user}

\* The files: .json files of a record, a .json file that is not JSON, and a
\* file of another kind.
FileEntries(is_item) ==
    {[json |-> TRUE, content |-> Some(r)] : r \in FileRecords(is_item)}
    \cup {[json |-> TRUE, content |-> None], [json |-> FALSE, content |-> None]}

InitLoad ==
    /\ IdleModule
    /\ IdleCache
    /\ parameters \in Parameters
    /\ IF parameters.items THEN EmptyStore \/ LoadedStore("1") ELSE UserStore(TRUE)
    /\ vendor \in {"sqlite", "postgresql"}
    /\ apps = {"recommendation.diversity", "recommendation.language"}
    /\ objects = << >>
    /\ items = << >>
    /\ users = << >>
    /\ categories = {}
    /\ locales = {}
    /\ db_categories = << >>
    /\ db_locales_map = << >>
    /\ fpc = "idle"
    /\ fexc = None
    /\ first_run = None
    /\ path = None
    /\ tmp_dir = None
    /\ use_tmp = TRUE
    \* the directory the user names, when one is named: absent, or with its files
    /\ IF truthy(parameters.path)
       THEN \/ files = << >>
            \/ \E fs \in SeqsUpTo(FileEntries(parameters.items), MaxFiles) :
                  files = ("/data" :> fs)
       ELSE files = ("/data" :> <<[json |-> FALSE, content |-> None]>>)
    /\ lpc = "new"
    /\ lexc = None

NextLoad ==
    \/ \E tar \in {None} \cup {Some(ms) : ms \in SeqsUpTo(FileEntries(parameters.items), MaxFiles)} :
          Construct(tar)
    \/ Load
    \/ LoadFiles
    \/ FillDb
    \/ FillDbWithItems
    \/ GetGenres
    \/ FillItemGenre
    \/ GetLocales
    \/ FillItemLocale
    \/ FillDbWithUsers
    \/ FillInventory
    \/ Finally

SpecLoad == InitLoad /\ [][NextLoad]_vars

(***************************************************************************)
(* Properties                                                              *)
(***************************************************************************)

\* The stage names of the calls made, in order.
Stages == [i \in DOMAIN calls |-> calls[i].stage]

\* C1: one call of predict_scores runs its stages in a fixed order: every
\* predictor with (user, size), then the aggregation, then the filters, then
\* the re-rankers, and it returns the last stage's output.  Stated of a call
\* that has aggregated: it ends by returning, having gone through the filter
\* and re-ranker stages after the aggregation.
C1_StagesInOrder ==
    (mpc \in {"returned", "raised"} /\ recommendation # None) =>
        /\ mpc = "returned"
        /\ \A i \in DOMAIN calls : calls[i].args = call
        /\ \E a \in DOMAIN calls :
              /\ Stages[a] = "aggregate"
              /\ \A i \in 1..(a - 1) : Stages[i] = "predictor"
              /\ {calls[i].id : i \in 1..(a - 1)} = DOMAIN aggregators

\* C2: the value handed on by the aggregation is the sum, over every configured
\* predictor counted once, of its prediction times its configured weight, and
\* every configured predictor has a usable weight.
C2_WeightedSum ==
    (mpc \in {"filters", "returned", "raised"}) =>
        /\ \A pid \in DOMAIN aggregators : aggregators[pid] # None
        /\ DOMAIN recommendations = DOMAIN aggregators
        /\ recommendation =
              Some(SumOver(DOMAIN aggregators,
                           [pid \in DOMAIN aggregators |->
                               recommendations[pid] * aggregators[pid][1]]))

\* The pks of the rows the bulk_create calls inserted into a table.
InsertedPks(name) ==
    UNION {statements[i].pks : i \in {j \in DOMAIN statements : statements[j].table = name}}

\* fill_db_with_items has gone past its bulk_create of the new items.
ItemsSaved ==
    \/ fpc \in {"genres", "fill_item_genre", "locales", "fill_item_locale", "done"}
    \/ /\ fpc = "raised"
       /\ fexc # None
       /\ ~(fexc[1].at = "fill_db_with_items" /\ fexc[1].type \in {"KeyError", "TypeError"})

\* C3: fill_db_with_items never inserts an Item whose external_id is already in
\* the store, never inserts one external_id twice, and once the items are
\* saved every retained input record's external_id has exactly one Item row.
C3_ItemsDeduplicated ==
    LET inserted == {r \in db_items : r.pk \in InsertedPks("Item")}
        before == db_items \ inserted
    IN /\ \A r \in inserted : \A b \in before : b.external_id # r.external_id
       /\ \A r1, r2 \in inserted : r1.external_id = r2.external_id => r1 = r2
       /\ ItemsSaved =>
             \A n \in DOMAIN objects :
                Cardinality({r \in db_items : r.external_id = objects[n].id.repr}) = 1

\* A run that found one input item in the store and inserted another.
C3_Witness ==
    /\ ItemsSaved
    /\ InsertedPks("Item") # {}
    /\ \E n \in DOMAIN objects : \E r \in db_items :
          r.pk \notin InsertedPks("Item") /\ r.external_id = objects[n].id.repr

\* fill_item_genre has been called and has ended.
ItemGenreFilled ==
    /\ "recommendation.diversity" \in apps
    /\ \/ fpc \in {"locales", "fill_item_locale", "done"}
       \/ fpc = "raised" /\ fexc # None
          /\ fexc[1].at \in {"fill_item_genre", "get_locales", "fill_item_locale"}

\* C5: after fill_item_genre, for every input record and every genre it lists
\* the store holds exactly one ItemGenre link of that (item, genre) pair, on
\* the sqlite branch and on the other branch alike.
C5_ItemGenreLinks ==
    ItemGenreFilled =>
        \A n \in DOMAIN objects :
           LET json_genres == get_or_empty(objects[n].genres)
           IN \A k \in DOMAIN json_genres :
                 Cardinality({r \in db_item_genres :
                                 /\ r.item_id = items[objects[n].id.repr].pk
                                 /\ r.type_id = db_categories[json_genres[k]].pk}) = 1

\* fill_item_locale has been called and has ended.
ItemLocaleFilled ==
    /\ "recommendation.language" \in apps
    /\ \/ fpc = "done"
       \/ fpc = "raised" /\ fexc # None /\ fexc[1].at = "fill_item_locale"

\* C6: after fill_item_locale, for every input record and every locale it lists
\* of the form XX or XX-XX the store holds exactly one ItemLocale link of that
\* (locale, item) pair, a dropped name gets no link, and the load is not aborted.
C6_ItemLocaleLinks ==
    (ItemLocaleFilled /\ \E n \in DOMAIN objects : get_or_empty(objects[n].locales) # << >>) =>
        /\ fpc = "done"
        /\ \A n \in DOMAIN objects :
              LET json_locales == get_or_empty(objects[n].locales)
              IN \A k \in DOMAIN json_locales :
                    IF respects_format(json_locales[k])
                    THEN /\ json_locales[k] \in DOMAIN db_locales_map
                         /\ Cardinality({r \in db_item_locales :
                                /\ r.locale_id = db_locales_map[json_locales[k]].pk
                                /\ r.item_id = items[objects[n].id.repr].pk}) = 1
                    ELSE json_locales[k] \notin DOMAIN db_locales_map

\* C4: on sqlite every bulk insert statement of the loader carries at most
\* SQLITE_MAX_ROWS rows, whatever the kind of row and the size of the input.
C4_StatementsWithinCap ==
    vendor = "sqlite" =>
        \A i \in DOMAIN statements : statements[i].size <= SQLITE_MAX_ROWS

\* fill_inventory has been called and has ended.
InventoryFilled ==
    \/ fpc = "done"
    \/ fpc = "raised" /\ fexc # None /\ fexc[1].at = "fill_inventory"

\* C7: after fill_inventory, every (user, item) pair of the input whose item is
\* in the store has exactly one Inventory row, and that row's acquisition and
\* dropped dates are the input's.
C7_InventoryMatchesInput ==
    InventoryFilled =>
        \A n \in DOMAIN objects : \A k \in DOMAIN user_items(objects[n]) :
           LET e == user_items(objects[n])[k]
           IN e.id.repr \in DOMAIN items =>
                 LET rows == {r \in db_inventory :
                                 /\ r.item_id = items[e.id.repr].pk
                                 /\ r.user_id = users[objects[n].id.repr].pk}
                 IN /\ Cardinality(rows) = 1
                    /\ \A r \in rows :
                          /\ r.acquisition_date = Some(strptime(e.acquired))
                          /\ r.dropped_date = IF e.dropped = None THEN None
                                              ELSE Some(strptime(e.dropped[1]))

\* C8: the language_code and country_code of every Locale row are lower case.
C8_LocaleCodesLowerCase ==
    \A r \in db_locales :
        r.language_code = lower(r.language_code) /\ r.country_code = lower(r.country_code)

\* C9: the locale caches track the many-to-many relations: item_locales[i]
\* contains locale l exactly when i is in l's items, items_by_locale[l] contains
\* i exactly when i is in l's items, and the same for the users.
C9_CachesTrackRelations ==
    /\ \A l \in LocalePks : \A i \in ItemPks :
          /\ (i \in locale_items[l]) <=> (l \in CacheGet(item_locales, i, {}))
          /\ (i \in locale_items[l]) <=> (i \in CacheGet(items_by_locale, l, {}))
    /\ \A l \in LocalePks : \A u \in UserPks :
          /\ (u \in locale_users[l]) <=> (l \in CacheGet(user_locales, u, {}))
          /\ (u \in locale_users[l]) <=> (u \in CacheGet(users_by_locale, l, {}))

\* C10: the assertion len(items) == len(self.objects) of fill_db_with_items
\* holds for every list of input records.
C10_ItemsAssertionHolds ==
    ~(fpc = "raised" /\ fexc = Some([at |-> "fill_db_with_items", type |-> "AssertionError"]))

\* C11: the assertion len(users) == len(self.objects) of fill_db_with_users
\* holds for every list of input user records, two records with one user
\* identifier included.
C11_UsersAssertionHolds ==
    ~(fpc = "raised" /\ fexc = Some([at |-> "fill_db_with_users", type |-> "AssertionError"]))

\* load has ended, by returning or by letting an exception through.
LoadEnded == lpc \in {"returned", "raised"}

\* C12: when the input was fetched into a temporary directory, that directory
\* is gone once load has ended, whether load_files and fill_db completed or
\* either raised; and when the input is a path given by the user, no step of
\* load removes or changes a directory.
C12_TmpDirCleaned ==
    /\ [](LoadEnded /\ use_tmp /\ tmp_dir # None => tmp_dir[1] \notin DOMAIN files)
    /\ [][lpc \notin {"new", "idle"} /\ ~use_tmp => files' = files]_vars

\* A load from a temporary directory that read records and ended with an
\* exception, the directory being gone.
C12_Witness ==
    /\ lpc = "raised"
    /\ lexc # None
    /\ use_tmp
    /\ tmp_dir # None
    /\ tmp_dir[1] \notin DOMAIN files
    /\ Len(objects) > 0

\* An input record whose genres or locales field is absent or None.
MissingField(json_item) ==
    \/ ~json_item.genres.present
    \/ json_item.genres.value = None
    \/ ~json_item.locales.present
    \/ json_item.locales.value = None

\* C13: once fill_db_with_items has run its loop over the records, an item
\* record whose genres or locales field is absent or None has raised no
\* error there, and it and the other records have their Item row.
C13_MissingFieldsLoaded ==
    (fpc # "fill_db_with_items" /\ \E n \in DOMAIN objects : MissingField(objects[n])) =>
        /\ ~(/\ fpc = "raised"
             /\ fexc # None
             /\ fexc[1].at = "fill_db_with_items"
             /\ fexc[1].type \in {"KeyError", "TypeError"})
        /\ \A n \in DOMAIN objects : \E r \in db_items : r.external_id = objects[n].id.repr

\* C14: a second run of fill_db_with_items on the same input records inserts
\* no Item, Genre, Locale, ItemGenre or ItemLocale row and leaves the store
\* exactly as the first run left it.
C14_SecondRunIdempotent ==
    first_run # None =>
        /\ store = first_run[1].store
        /\ \A i \in DOMAIN statements :
              i > first_run[1].statements => statements[i].pks = {}

\* A second run that completed, after a first run that inserted items, genres,
\* locales and links of both kinds.
C14_Witness ==
    /\ first_run # None
    /\ fpc = "done"
    /\ \A name \in {"Item", "Genre", "Locale", "ItemGenre", "ItemLocale"} :
          InsertedPks(name) # {}

=============================================================================
